---- MODULE Spec2Model ----
(***************************************************************************)
(* Voice-chat signaling server with channels: the channel registry         *)
(* (channelsStore), the presence table of the Socket.IO server and the     *)
(* REST endpoint that creates channels.                                    *)
(*                                                                         *)
(* Strings are sequences of one-character strings, so that trim, slugify   *)
(* and String() are computed character by character.  A JavaScript value   *)
(* that reaches a handler from a client is a record [t, s, n]: its type,   *)
(* its characters when it is a string, its value when it is a number.      *)
(***************************************************************************)
EXTENDS Integers, Sequences, FiniteSets, TLC

\* ---------------------------------------------------------------- bounds
MaxSockets == 2      \* connections that ever exist
MaxRetries == 2      \* iterations of the id-collision loop that are followed
MaxMutations == 2    \* creates, updates and admitted joins in a run of Spec
MaxRegistryOps == 3  \* creates and updates in a run of SpecRegistry
MaxJoins == 3        \* admitted joins in a run of SpecPresence
MaxUpdates == 1      \* updates in a run of SpecPresence

\* ------------------------------------------------------- JavaScript values
Undefined == [t |-> "undefined", s |-> <<>>, n |-> 0]
Null == [t |-> "null", s |-> <<>>, n |-> 0]
Bool(b) == [t |-> "boolean", s |-> <<>>, n |-> IF b THEN 1 ELSE 0]
Str(chars) == [t |-> "string", s |-> chars, n |-> 0]
Num(k) == [t |-> "number", s |-> <<>>, n |-> k]

\* Truthiness, as used by `x || y`, `x ? a : b` and `!x`.
Truthy(v) ==
    CASE v.t \in {"undefined", "null"} -> FALSE
      [] v.t = "string" -> v.s # <<>>
      [] v.t \in {"number", "boolean"} -> v.n # 0

\* the number Infinity, written as an integer above every count that occurs
Infinity == 1000000

Digits == <<"0", "1", "2", "3", "4", "5", "6", "7", "8", "9">>

\* String(v) for the values that occur: strings, numbers of one or two
\* digits, booleans, null and undefined.
String(v) ==
    CASE v.t = "string" -> v.s
      [] v.t = "number" /\ v.n \in 0..9 -> <<Digits[v.n + 1]>>
      [] v.t = "number" /\ v.n \in 10..99 ->
            <<Digits[(v.n \div 10) + 1], Digits[(v.n % 10) + 1]>>
      [] v.t = "number" /\ v.n \in -9..-1 -> <<"-", Digits[1 - v.n]>>
      [] v.t = "boolean" /\ v.n = 1 -> <<"t", "r", "u", "e">>
      [] v.t = "boolean" /\ v.n = 0 -> <<"f", "a", "l", "s", "e">>
      [] v.t = "null" -> <<"n", "u", "l", "l">>
      [] OTHER -> <<"u", "n", "d", "e", "f", "i", "n", "e", "d">>

DigitValue(c) == CHOOSE i \in 0..9 : Digits[i + 1] = c

IsDigit(c) == \E i \in 1..10 : Digits[i] = c

\* Number(v): [nan, n].  A string converts when it is empty (0) or one digit.
Number(v) ==
    CASE v.t \in {"number", "boolean"} -> [nan |-> FALSE, n |-> v.n]
      [] v.t = "null" -> [nan |-> FALSE, n |-> 0]
      [] v.t = "string" /\ v.s = <<>> -> [nan |-> FALSE, n |-> 0]
      [] v.t = "string" /\ Len(v.s) = 1 /\ IsDigit(v.s[1]) ->
            [nan |-> FALSE, n |-> DigitValue(v.s[1])]
      [] OTHER -> [nan |-> TRUE, n |-> 0]

\* ----------------------------------------------------------------- strings
IsSpace(c) == c \in {" ", "\t"}

RECURSIVE TrimStart(_)
TrimStart(s) ==
    IF s # <<>> /\ IsSpace(Head(s)) THEN TrimStart(Tail(s)) ELSE s

RECURSIVE TrimEnd(_)
TrimEnd(s) ==
    IF s # <<>> /\ IsSpace(s[Len(s)]) THEN TrimEnd(SubSeq(s, 1, Len(s) - 1)) ELSE s

\* String.prototype.trim
Trim(s) == TrimEnd(TrimStart(s))

\* A Cyrillic letter is written as its transliteration in angle brackets and
\* is one character: "<i>" is the small letter i, "<I>" the capital one.
UpperCase == <<"A", "B", "G", "E", "<O>", "<I>">>
LowerCase == <<"a", "b", "g", "e", "<o>", "<i>">>

\* String.prototype.toLowerCase, one character
LowerChar(c) ==
    IF \E i \in 1..Len(UpperCase) : UpperCase[i] = c
    THEN LowerCase[CHOOSE i \in 1..Len(UpperCase) : UpperCase[i] = c]
    ELSE c

ToLowerCase(s) == [i \in 1..Len(s) |-> LowerChar(s[i])]

\* the class [a-z0-9<a>-<ya><yo>] of slugify, over the characters that occur
SlugChars ==
    {"a", "b", "c", "d", "e", "g", "h", "l", "n", "o", "p", "q", "r", "s",
     "t", "u", "x", "y", "<o>", "<b>", "<shch>", "<i>", "<j>", "<g>", "<r>",
     "<y>"} \cup {Digits[i] : i \in 1..10}

IsSlugChar(c) == c \in SlugChars

RECURSIVE SkipNonSlug(_)
SkipNonSlug(s) ==
    IF s # <<>> /\ ~IsSlugChar(Head(s)) THEN SkipNonSlug(Tail(s)) ELSE s

\* .replace(/[^a-z0-9<a>-<ya><yo>]+/gi, '-')
RECURSIVE ReplaceNonSlugRuns(_)
ReplaceNonSlugRuns(s) ==
    IF s = <<>> THEN <<>>
    ELSE IF IsSlugChar(Head(s)) THEN <<Head(s)>> \o ReplaceNonSlugRuns(Tail(s))
    ELSE <<"-">> \o ReplaceNonSlugRuns(SkipNonSlug(s))

\* .replace(/-+/g, '-')
RECURSIVE CollapseDashes(_)
CollapseDashes(s) ==
    IF s = <<>> THEN <<>>
    ELSE IF Head(s) = "-" /\ Len(s) > 1 /\ s[2] = "-" THEN CollapseDashes(Tail(s))
    ELSE <<Head(s)>> \o CollapseDashes(Tail(s))

\* .replace(/^-|-$/g, '')
StripEdgeDashes(s) ==
    LET a == IF s # <<>> /\ Head(s) = "-" THEN Tail(s) ELSE s
    IN IF a # <<>> /\ a[Len(a)] = "-" THEN SubSeq(a, 1, Len(a) - 1) ELSE a

\* Math.random().toString(36).slice(2, 8): the placeholders that are drawn
RandomPlaceholders == {<<"q", "7">>}

\* Math.random().toString(36).slice(2, 5): the suffixes that are drawn
RandomSuffixes == {<<"x">>, <<"y", "2">>}

ChannelPrefix == <<"c", "h", "a", "n", "n", "e", "l", "-">>

\* slugify(name): the ids it may return (one, unless the slug is empty)
slugify(name) ==
    LET slug == StripEdgeDashes(CollapseDashes(ReplaceNonSlugRuns(ToLowerCase(name))))
    IN IF slug # <<>> THEN {slug} ELSE {ChannelPrefix \o r : r \in RandomPlaceholders}

\* ---------------------------------------------------------------- registry
VARIABLES
    channels,          \* channelsStore.channels: the Map, as its values in insertion order
    disk,              \* data/channels.json: the array last written, <<>> of records
    maxRoomUsers,      \* config.maxRoomUsers
    channelMembers,    \* channel id -> members in insertion order (a Map of Maps)
    socketChannelMap,  \* socket id -> channel id
    ioRooms,           \* Socket.IO rooms: socket id -> the channel ids it joined
    sockets,           \* socket id -> "new" | "connected" | "closed"
    event,             \* the event handled last: its kind and its socket
    sent,              \* the Socket.IO messages the last handler emitted, in order
    response,          \* the HTTP response of the last handler, or NoResponse
    lastBroadcast,     \* payload of the last io.emit('channels-state'), <<>> before any
    admitted,          \* channel id -> number of joins admitted to it
    departed,          \* channel id -> number of members removed from it by disconnect
    nCreates,          \* POST /channels requests that passed the name check
    nUpdates,          \* updateChannel calls that found their channel
    roomMap,           \* server.js rooms: the Map, as [id, members] in insertion order
    roomPasswords      \* server.js roomPasswords: room id -> password

vars ==
    <<channels, disk, maxRoomUsers, channelMembers, socketChannelMap, ioRooms, sockets,
      event, sent, response, lastBroadcast, admitted, departed, nCreates, nUpdates,
      roomMap, roomPasswords>>

registryVars == <<channels, disk>>
presenceVars == <<channelMembers, socketChannelMap, ioRooms>>
countVars == <<admitted, departed>>
roomServerVars == <<roomMap, roomPasswords>>
channelServerVars ==
    <<channels, disk, channelMembers, socketChannelMap, lastBroadcast, admitted, departed,
      nCreates, nUpdates>>

\* the default capacity written into createChannel and loadChannelsFromDisk
DefaultMaxUsers == 10

ChannelIds(chs) == {chs[i].id : i \in 1..Len(chs)}

\* channels.has(id)
HasChannel(chs, id) == id \in ChannelIds(chs)

\* getChannel(id), for an id the registry holds
getChannel(chs, id) == chs[CHOOSE i \in 1..Len(chs) : chs[i].id = id]

\* a set that drops every other entry of the registry
MapSet_Overwrite(chs, ch) == <<ch>>

\* Map.prototype.set on the registry: an existing key keeps its position
MapSet(chs, ch) ==
    IF HasChannel(chs, ch.id)
    THEN [i \in 1..Len(chs) |-> IF chs[i].id = ch.id THEN ch ELSE chs[i]]
    ELSE Append(chs, ch)

\* JSON.stringify of one channel: a property whose value is undefined is left
\* out, and the number Infinity is written as null
ToJson(ch) ==
    [id |-> Str(ch.id), name |-> Str(ch.name),
     maxUsers |-> IF ch.maxUsers = Infinity THEN Null ELSE Num(ch.maxUsers),
     hasPassword |-> Bool(ch.hasPassword), passwordHash |-> ch.passwordHash]

\* saveChannelsToDisk: the array written to channels.json
saveChannelsToDisk(chs) == [i \in 1..Len(chs) |-> ToJson(chs[i])]

\* the record loadChannelsFromDisk builds from one parsed entry
FromJson(j) ==
    [id |-> String(j.id), name |-> String(j.name),
     maxUsers |-> IF Number(j.maxUsers).nan \/ Number(j.maxUsers).n = 0
                  THEN DefaultMaxUsers ELSE Number(j.maxUsers).n,
     hasPassword |-> Truthy(j.hasPassword),
     passwordHash |-> IF Truthy(j.passwordHash) THEN Str(String(j.passwordHash))
                      ELSE Undefined]

\* parsed.forEach(...) of loadChannelsFromDisk
RECURSIVE LoadEntries(_, _)
LoadEntries(chs, parsed) ==
    IF parsed = <<>> THEN chs
    ELSE LET j == Head(parsed)
         IN LoadEntries(IF Truthy(j.id) /\ Truthy(j.name) THEN MapSet(chs, FromJson(j)) ELSE chs,
                        Tail(parsed))

Seed(id, name) ==
    [id |-> id, name |-> name, maxUsers |-> DefaultMaxUsers, hasPassword |-> FALSE,
     passwordHash |-> Undefined]

NameObshchij == <<"<O>", "<b>", "<shch>", "<i>", "<j>">>
NameIgry == <<"<I>", "<g>", "<r>", "<y>">>

\* the channels seeded when channels.json does not exist
InitialChannels ==
    <<Seed(<<"d", "o", "t", "a", " ", "2">>, NameObshchij),
      Seed(<<"c", "o", "o", "p">>, NameIgry),
      Seed(<<"s", "q", "u", "a", "d">>, NameIgry)>>

\* the channel seeded when channels.json cannot be parsed
FallbackChannels == <<Seed(<<"g", "e", "n", "e", "r", "a", "l">>, NameObshchij)>>

\* files channels.json may hold at start: absent, unparsable, an array
\* written by an earlier run of the server, or an array written by hand
StoredChannels ==
    <<[id |-> <<"g", "e">>, name |-> <<"G", "e">>, maxUsers |-> 1,
       hasPassword |-> FALSE, passwordHash |-> Undefined],
      [id |-> <<"g", "e", "-", "x">>, name |-> <<"g", "e">>, maxUsers |-> 2,
       hasPassword |-> TRUE, passwordHash |-> Str(<<"p">>)]>>

\* an array that was not written by the server: one entry with hasPassword
\* true, no passwordHash and no maxUsers
ForeignEntries ==
    <<[id |-> Str(<<"v", "i", "p">>), name |-> Str(<<"V">>), maxUsers |-> Undefined,
       hasPassword |-> Bool(TRUE), passwordHash |-> Undefined]>>

File(kind, parsed) == [kind |-> kind, parsed |-> parsed]

\* what the process finds when it starts: channels.json and MAX_ROOM_USERS
Startups ==
    {[file |-> File("absent", <<>>), env |-> Undefined],
     [file |-> File("unparsable", <<>>), env |-> Str(<<"x">>)],
     [file |-> File("array", saveChannelsToDisk(StoredChannels)), env |-> Str(<<"2">>)],
     [file |-> File("array", ForeignEntries), env |-> Undefined]}

\* loadChannelsFromDisk, run once when the module is loaded: the registry
\* and the file it leaves
loadChannelsFromDisk(file) ==
    CASE file.kind = "absent" ->
            [channels |-> InitialChannels,
             disk |-> File("array", saveChannelsToDisk(InitialChannels))]
      [] file.kind = "unparsable" ->
            [channels |-> FallbackChannels,
             disk |-> File("array", saveChannelsToDisk(FallbackChannels))]
      [] OTHER ->
            [channels |-> LoadEntries(<<>>, file.parsed), disk |-> file]

\* the default of MAX_ROOM_USERS in config.js
DefaultMaxRoomUsers == 10

\* getEnvNumber(name, defaultValue) for the raw value of the variable
getEnvNumber(raw, defaultValue) ==
    IF ~Truthy(raw) THEN defaultValue
    ELSE IF Number(raw).nan \/ Number(raw).n = Infinity THEN defaultValue
    ELSE Number(raw).n


\* ---------------------------------------------------------------- sockets
SocketNames == <<"A", "B", "C", "D", "E", "F">>
Sockets == {<<SocketNames[i]>> : i \in 1..MaxSockets}

NoEvent == [kind |-> "start", socket |-> <<>>]
NoResponse == [status |-> 0, body |-> Null]

Init ==
    /\ \E st \in Startups :
          /\ channels = loadChannelsFromDisk(st.file).channels
          /\ disk = loadChannelsFromDisk(st.file).disk
          /\ maxRoomUsers = getEnvNumber(st.env, DefaultMaxRoomUsers)
    /\ channelMembers = <<>>
    /\ socketChannelMap = <<>>
    /\ ioRooms = [s \in Sockets |-> {}]
    /\ sockets = [s \in Sockets |-> "new"]
    /\ event = NoEvent
    /\ sent = <<>>
    /\ response = NoResponse
    /\ lastBroadcast = <<>>
    /\ admitted = <<>>
    /\ departed = <<>>
    /\ nCreates = 0
    /\ nUpdates = 0
    /\ roomMap = <<>>
    /\ roomPasswords = <<>>

\* ------------------------------------------------------------- broadcaster
Connected == {s \in Sockets : sockets[s] = "connected"}

\* Array.from(members.values()).map(m => ({socketId, name}))
OnlineUsers(members) ==
    [i \in 1..Len(members) |-> [socketId |-> members[i].socketId, name |-> members[i].name]]

MembersOf(cm, id) == IF id \in DOMAIN cm THEN cm[id] ELSE <<>>

\* the view of one channel with its passwordHash added
ChannelView_WithSecret(ch, cm) ==
    [id |-> ch.id, name |-> ch.name, maxUsers |-> ch.maxUsers,
     hasPassword |-> ch.hasPassword,
     onlineCount |-> Len(OnlineUsers(MembersOf(cm, ch.id))),
     onlineUsers |-> OnlineUsers(MembersOf(cm, ch.id)),
     passwordHash |-> ch.passwordHash]

\* the view of one channel that buildChannelsState and GET /channels/:id return
ChannelView(ch, cm) ==
    [id |-> ch.id, name |-> ch.name, maxUsers |-> ch.maxUsers,
     hasPassword |-> ch.hasPassword,
     onlineCount |-> Len(OnlineUsers(MembersOf(cm, ch.id))),
     onlineUsers |-> OnlineUsers(MembersOf(cm, ch.id))]

\* buildChannelsState()
buildChannelsState(chs, cm) == [i \in 1..Len(chs) |-> ChannelView(chs[i], cm)]

\* A message: the call that sent it, the sockets it reaches, its event name
\* and its payload.
Message(via, to, name, data) == [via |-> via, to |-> to, name |-> name, data |-> data]

\* the message of broadcastChannelsState(): io.emit reaches every connected socket
broadcastChannelsState(chs, cm, conn) ==
    Message("io.emit", conn, "channels-state", buildChannelsState(chs, cm))

IsBroadcast(m) == m.via = "io.emit" /\ m.name = "channels-state"

\* the payload of the last channels-state broadcast among msgs, else previous
RECURSIVE LastBroadcastOf(_, _)
LastBroadcastOf(msgs, previous) ==
    IF msgs = <<>> THEN previous
    ELSE IF IsBroadcast(msgs[Len(msgs)]) THEN msgs[Len(msgs)].data
    ELSE LastBroadcastOf(SubSeq(msgs, 1, Len(msgs) - 1), previous)

Count(f, id) == IF id \in DOMAIN f THEN f[id] ELSE 0

Increment(f, id) == (id :> Count(f, id) + 1) @@ f

RECURSIVE SumOver(_, _)
SumOver(f, ids) ==
    IF ids = {} THEN 0
    ELSE LET id == CHOOSE x \in ids : TRUE IN f[id] + SumOver(f, ids \ {id})

Total(f) == SumOver(f, DOMAIN f)

\* ------------------------------------------------------ createChannel, POST
\* the name taken without .trim()
ChannelName_NoTrim(v) == IF Truthy(v) THEN String(v) ELSE <<>>

\* const name = String(params.name || '').trim()
ChannelName(v) == Trim(IF Truthy(v) THEN String(v) ELSE <<>>)

\* if (!name) throw new Error('NAME_REQUIRED')
NameRequired(v) == ChannelName(v) = <<>>

\* while (channels.has(id)) id = `${id}-${random}`: the ids the loop may end
\* with after at most `fuel` iterations
RECURSIVE UniqueIds(_, _, _)
UniqueIds(id, chs, fuel) ==
    IF ~HasChannel(chs, id) THEN {id}
    ELSE IF fuel = 0 THEN {}
    ELSE UNION {UniqueIds(id \o <<"-">> \o r, chs, fuel - 1) : r \in RandomSuffixes}

\* the id taken from slugify without the collision loop
NewChannelIds_NoLoop(name, chs) == slugify(name)

\* the ids createChannel may give a channel of this (trimmed) name
NewChannelIds(name, chs) == UNION {UniqueIds(id, chs, MaxRetries) : id \in slugify(name)}

\* Number(params.maxUsers) > 0 ? Number(params.maxUsers) : 10
NewMaxUsers(v) ==
    IF ~Number(v).nan /\ Number(v).n > 0 THEN Number(v).n ELSE DefaultMaxUsers

\* the Channel object createChannel builds
NewChannel(id, params) ==
    [id |-> id, name |-> ChannelName(params.name), maxUsers |-> NewMaxUsers(params.maxUsers),
     hasPassword |-> Truthy(params.password),
     passwordHash |-> IF Truthy(params.password) THEN Str(String(params.password))
                      ELSE Undefined]

\* the 201 body of POST /channels
CreatedView(ch) ==
    [id |-> ch.id, name |-> ch.name, maxUsers |-> ch.maxUsers,
     hasPassword |-> ch.hasPassword, onlineCount |-> 0, onlineUsers |-> <<>>]

ErrorBody(code) == [error |-> code]

Params(name, maxUsers, password) ==
    [name |-> name, maxUsers |-> maxUsers, password |-> password]

\* bodies of POST /channels: three without a usable name, two whose names
\* share the slug "ge", one whose slug is empty, one whose maxUsers is the
\* number Infinity (JSON.parse reads 1e999 as Infinity)
CreateParams ==
    {Params(Undefined, Num(2), Str(<<"p">>)),
     Params(Str(<<>>), Undefined, Undefined),
     Params(Str(<<" ", "\t">>), Num(2), Undefined),
     Params(Str(<<"G", "e">>), Num(2), Str(<<"p">>)),
     Params(Str(<<" ", "g", "e", "!">>), Num(0), Str(<<>>)),
     Params(Str(<<"!">>), Undefined, Undefined),
     Params(Str(<<"b">>), Num(Infinity), Undefined)}

\* passwords a client sends with join-room: none, empty, and two secrets
PasswordInputs == {Undefined, Str(<<>>), Str(<<"p">>), Str(<<"q">>)}

\* POST /channels with body {name, maxUsers, password}; writeOk tells whether
\* fs.writeFileSync of saveChannelsToDisk succeeds or throws, when it is reached
PostChannels(params, writeOk) ==
    /\ event' = [kind |-> "POST /channels", socket |-> <<>>]
    /\ IF NameRequired(params.name)
       THEN /\ response' = [status |-> 400, body |-> ErrorBody("NAME_REQUIRED")]
            /\ sent' = <<>>
            /\ UNCHANGED <<channels, disk, lastBroadcast, nCreates>>
       ELSE /\ nCreates' = nCreates + 1
            /\ \E id \in NewChannelIds(ChannelName(params.name), channels) :
                  LET ch == NewChannel(id, params)
                      chs == MapSet(channels, ch)
                  IN /\ channels' = chs
                     /\ IF writeOk
                        THEN /\ disk' = File("array", saveChannelsToDisk(chs))
                             /\ sent' = <<broadcastChannelsState(chs, channelMembers, Connected)>>
                             /\ lastBroadcast' = LastBroadcastOf(sent', lastBroadcast)
                             /\ response' = [status |-> 201, body |-> CreatedView(ch)]
                        ELSE /\ disk' = disk
                             /\ sent' = <<>>
                             /\ lastBroadcast' = lastBroadcast
                             /\ response' = [status |-> 500, body |-> ErrorBody("INTERNAL_ERROR")]
    /\ UNCHANGED <<maxRoomUsers, roomServerVars, presenceVars, sockets, countVars, nUpdates>>

\* ------------------------------------------------------------ updateChannel
\* the record updateChannel leaves for `existing` under `patch`
PatchedChannel(existing, patch) ==
    LET name == ChannelName(patch.name)
        n == Number(patch.maxUsers)
    IN [id |-> existing.id,
        name |-> IF patch.name # Undefined /\ name # <<>> THEN name ELSE existing.name,
        maxUsers |-> IF patch.maxUsers # Undefined /\ ~n.nan /\ n.n # Infinity /\ n.n > 0
                     THEN n.n ELSE existing.maxUsers,
        hasPassword |-> IF patch.password # Undefined THEN Truthy(patch.password)
                        ELSE existing.hasPassword,
        passwordHash |-> IF patch.password # Undefined
                         THEN (IF Truthy(patch.password) THEN Str(String(patch.password))
                               ELSE Undefined)
                         ELSE existing.passwordHash]

\* patches of updateChannel: one whose fields are all refused, one whose
\* fields are all applied, one that clears the password
Patches ==
    {Params(Str(<<" ">>), Num(0), Undefined),
     Params(Str(<<"a", "b">>), Num(1), Str(<<"q">>)),
     Params(Undefined, Undefined, Null)}
UnknownId == <<"n", "o">>

\* updateChannel(id, patch), called on the store; it returns the channel or null
UpdateChannel(id, patch, writeOk) ==
    /\ event' = [kind |-> "updateChannel", socket |-> <<>>]
    /\ sent' = <<>>
    /\ IF ~HasChannel(channels, id)
       THEN /\ response' = NoResponse
            /\ UNCHANGED <<channels, disk, nUpdates>>
       ELSE /\ nUpdates' = nUpdates + 1
            /\ LET chs == MapSet(channels, PatchedChannel(getChannel(channels, id), patch))
               IN /\ channels' = chs
                  /\ IF writeOk
                     THEN /\ disk' = File("array", saveChannelsToDisk(chs))
                          /\ response' = [status |-> 0, body |-> getChannel(chs, id)]
                     ELSE /\ disk' = disk
                          /\ response' = [status |-> 0, body |-> ErrorBody("EIO")]
    /\ UNCHANGED <<maxRoomUsers, roomServerVars, presenceVars, sockets, lastBroadcast, countVars, nCreates>>

\* --------------------------------------------------------------- join-room
\* const channelId = String(roomId || '').trim()
ChannelIdOf(roomId) == Trim(IF Truthy(roomId) THEN String(roomId) ELSE <<>>)

\* const effectiveMaxUsers = channel.maxUsers || config.maxRoomUsers
effectiveMaxUsers(channel, cfgMax) ==
    IF channel.maxUsers # 0 THEN channel.maxUsers ELSE cfgMax

\* if (members.size >= effectiveMaxUsers)
RoomFull(channel, members, cfgMax) == Len(members) >= effectiveMaxUsers(channel, cfgMax)

\* const provided = password ? String(password) : ''
Provided(password) == IF Truthy(password) THEN String(password) ELSE <<>>

\* channel.passwordHash || ''
StoredSecret(channel) ==
    IF Truthy(channel.passwordHash) THEN channel.passwordHash.s ELSE <<>>

\* the password check without its `!provided` test
WrongPassword_SecretOnly(channel, password) ==
    /\ channel.hasPassword
    /\ Provided(password) # <<>>
    /\ Provided(password) # StoredSecret(channel)

\* if (channel.hasPassword) { if (!provided || provided !== (channel.passwordHash || '')) ...
WrongPassword(channel, password) ==
    /\ channel.hasPassword
    /\ (Provided(password) = <<>> \/ Provided(password) # StoredSecret(channel))

\* the checks with the password tested before the capacity
JoinError_PasswordFirst(chs, cm, cfgMax, channelId, password) ==
    IF ~HasChannel(chs, channelId) THEN "CHANNEL_NOT_FOUND"
    ELSE IF WrongPassword(getChannel(chs, channelId), password) THEN "WRONG_PASSWORD"
    ELSE IF RoomFull(getChannel(chs, channelId), MembersOf(cm, channelId), cfgMax)
         THEN "ROOM_FULL"
    ELSE ""

\* the join-error code of a join-room for a non-empty channel id, "" when it is admitted
JoinError(chs, cm, cfgMax, channelId, password) ==
    IF ~HasChannel(chs, channelId) THEN "CHANNEL_NOT_FOUND"
    ELSE IF RoomFull(getChannel(chs, channelId), MembersOf(cm, channelId), cfgMax)
         THEN "ROOM_FULL"
    ELSE IF WrongPassword(getChannel(chs, channelId), password) THEN "WRONG_PASSWORD"
    ELSE ""

\* if (!members) { members = new Map(); channelMembers.set(channelId, members) }
EnsureEntry(cm, channelId) ==
    IF channelId \in DOMAIN cm THEN cm ELSE (channelId :> <<>>) @@ cm

DefaultUserName == <<"<B>", "<e>", "<z>", " ", "<i>", "<m>", "<e>", "<n>", "<i>">>

\* the member object: name is userName || the placeholder
Member(s, userName) ==
    [socketId |-> s, name |-> IF Truthy(userName) THEN userName ELSE Str(DefaultUserName)]

HasMember(members, s) == \E i \in 1..Len(members) : members[i].socketId = s

\* members.set(socket.id, member): a key already present keeps its position
MemberSet(members, m) ==
    IF HasMember(members, m.socketId)
    THEN [i \in 1..Len(members) |-> IF members[i].socketId = m.socketId THEN m ELSE members[i]]
    ELSE Append(members, m)

\* members.delete(socket.id)
RECURSIVE MemberDelete(_, _)
MemberDelete(members, s) ==
    IF members = <<>> THEN <<>>
    ELSE IF Head(members).socketId = s THEN MemberDelete(Tail(members), s)
    ELSE <<Head(members)>> \o MemberDelete(Tail(members), s)

\* the `others` array: every member but the joiner, after the insertion
Others(members, s) == OnlineUsers(MemberDelete(members, s))

\* socket.to(room): the sockets in the Socket.IO room, the sender excepted
RoomExcept(rooms, room, s) == {x \in Sockets : room \in rooms[x] /\ x # s}

JoinErrorMessage(s, code) == Message("socket.emit", {s}, "join-error", [code |-> code])

\* the join-error sent with io.emit instead of socket.emit
RejectedEmits_ToAll(s, code) ==
    <<Message("io.emit", Sockets, "join-error", [code |-> code])>>

\* what the rejected branches of join-room emit
RejectedEmits(s, code) == <<JoinErrorMessage(s, code)>>

\* what the admitted branch of join-room emits, in order
AdmittedEmits(s, channelId, member, members, eff, rooms, chs, cm, conn) ==
    <<Message("socket.emit", {s}, "room-users",
              [roomId |-> channelId, users |-> Others(members, s), maxUsers |-> eff]),
      Message("socket.to", RoomExcept(rooms, channelId, s), "user-joined",
              [socketId |-> s, name |-> member.name]),
      broadcastChannelsState(chs, cm, conn)>>

\* the presence table a join-room leaves: untouched for an empty or unknown
\* channel id, with an entry for the channel when the join is rejected, with
\* the member set in it when the join is admitted
PresenceAfterJoin(chs, cm, cfgMax, s, roomId, userName, password) ==
    LET channelId == ChannelIdOf(roomId)
        code == JoinError(chs, cm, cfgMax, channelId, password)
    IN IF channelId = <<>> \/ code = "CHANNEL_NOT_FOUND" THEN cm
       ELSE IF code # "" THEN EnsureEntry(cm, channelId)
       ELSE (channelId :> MemberSet(MembersOf(cm, channelId), Member(s, userName))) @@ cm

\* room ids a client sends: none, unknown, each channel's id, and the
\* first channel's id between blanks
RoomIdInputs ==
    {Undefined, Str(UnknownId)}
        \cup {Str(channels[i].id) : i \in 1..Len(channels)}
        \cup {Str(<<" ">> \o channels[i].id \o <<" ">>) : i \in 1..(IF channels = <<>> THEN 0 ELSE 1)}
UserNameInputs == {Undefined, Str(<<"a", "n", "n">>)}

\* socket.on('join-room', ({roomId, userName, password}) => ...)
JoinRoom(s, roomId, userName, password) ==
    /\ sockets[s] = "connected"
    /\ event' = [kind |-> "join-room", socket |-> s]
    /\ response' = NoResponse
    /\ UNCHANGED <<registryVars, maxRoomUsers, roomServerVars, sockets, nCreates, nUpdates>>
    /\ \E channelId \in {ChannelIdOf(roomId)} :
       \E code \in {JoinError(channels, channelMembers, maxRoomUsers, channelId, password)} :
          IF channelId = <<>>
          THEN /\ sent' = <<>>
               /\ UNCHANGED <<presenceVars, lastBroadcast, countVars>>
          ELSE IF code = "CHANNEL_NOT_FOUND"
          THEN /\ sent' = RejectedEmits(s, code)
               /\ UNCHANGED <<presenceVars, lastBroadcast, countVars>>
          ELSE IF code # ""
          THEN /\ channelMembers' = EnsureEntry(channelMembers, channelId)
               /\ sent' = RejectedEmits(s, code)
               /\ UNCHANGED <<socketChannelMap, ioRooms, lastBroadcast, countVars>>
          ELSE LET channel == getChannel(channels, channelId)
                   member == Member(s, userName)
                   members == MemberSet(MembersOf(channelMembers, channelId), member)
                   cm == (channelId :> members) @@ channelMembers
                   rooms == [ioRooms EXCEPT ![s] = @ \cup {channelId}]
               IN /\ ioRooms' = rooms
                  /\ channelMembers' = cm
                  /\ socketChannelMap' = (s :> channelId) @@ socketChannelMap
                  /\ sent' = AdmittedEmits(s, channelId, member, members,
                                           effectiveMaxUsers(channel, maxRoomUsers),
                                           rooms, channels, cm, Connected)
                  /\ lastBroadcast' = LastBroadcastOf(sent', lastBroadcast)
                  /\ admitted' = Increment(admitted, channelId)
                  /\ UNCHANGED departed

\* ------------------------------------------------------------------ signal
\* io.to(target): the connected sockets in the room of that name; every
\* socket is in the room named by its own id
RoomOf(rooms, target, conn) == {x \in conn : x = target \/ target \in rooms[x]}

\* socket.on('signal', ({roomId, targetSocketId, data}) => ...)
Signal(s, roomId, targetSocketId, data) ==
    /\ sockets[s] = "connected"
    /\ event' = [kind |-> "signal", socket |-> s]
    /\ response' = NoResponse
    /\ sent' = IF ~Truthy(roomId) \/ ~Truthy(targetSocketId) \/ ~Truthy(data) THEN <<>>
               ELSE <<Message("io.to", RoomOf(ioRooms, targetSocketId.s, Connected), "signal",
                              [from |-> s, roomId |-> roomId, data |-> data])>>
    /\ UNCHANGED <<registryVars, maxRoomUsers, roomServerVars, presenceVars, sockets, lastBroadcast,
                   countVars, nCreates, nUpdates>>

\* --------------------------------------------------- connection, disconnect
\* socket ids are handed out by the transport, here in the order of SocketNames
NextSocketId == <<SocketNames[Cardinality({x \in Sockets : sockets[x] # "new"}) + 1]>>

\* io.on('connection', socket => socket.emit('channels-state', ...))
Connection(s) ==
    /\ sockets[s] = "new"
    /\ s = NextSocketId
    /\ sockets' = [sockets EXCEPT ![s] = "connected"]
    /\ event' = [kind |-> "connection", socket |-> s]
    /\ response' = NoResponse
    /\ sent' = <<Message("socket.emit", {s}, "channels-state",
                          buildChannelsState(channels, channelMembers))>>
    /\ UNCHANGED <<registryVars, maxRoomUsers, roomServerVars, presenceVars, lastBroadcast, countVars,
                   nCreates, nUpdates>>

\* the presence table after the disconnect handler removed s from channelId
Departure(cm, channelId, s) ==
    IF channelId \in DOMAIN cm /\ HasMember(cm[channelId], s)
    THEN IF MemberDelete(cm[channelId], s) = <<>>
         THEN [id \in DOMAIN cm \ {channelId} |-> cm[id]]
         ELSE [cm EXCEPT ![channelId] = MemberDelete(cm[channelId], s)]
    ELSE cm

\* the disconnect handler without its broadcastChannelsState()
DisconnectEmits_NoBroadcast(s, channelId, wasMember, rooms, chs, cm, conn) ==
    IF wasMember
    THEN <<Message("socket.to", RoomExcept(rooms, channelId, s), "user-left",
                   [socketId |-> s])>>
    ELSE <<>>

\* what the disconnect handler emits for a socket that is in channelId
DisconnectEmits(s, channelId, wasMember, rooms, chs, cm, conn) ==
    (IF wasMember
     THEN <<Message("socket.to", RoomExcept(rooms, channelId, s), "user-left",
                    [socketId |-> s])>>
     ELSE <<>>) \o <<broadcastChannelsState(chs, cm, conn)>>

\* socket.on('disconnect', () => ...); Socket.IO has already taken the
\* socket out of its rooms and of the connected sockets
Disconnect(s) ==
    LET rooms == [ioRooms EXCEPT ![s] = {}]
        conn == Connected \ {s}
    IN /\ sockets[s] = "connected"
       /\ sockets' = [sockets EXCEPT ![s] = "closed"]
       /\ ioRooms' = rooms
       /\ event' = [kind |-> "disconnect", socket |-> s]
       /\ response' = NoResponse
       /\ IF s \notin DOMAIN socketChannelMap
          THEN /\ sent' = <<>>
               /\ UNCHANGED <<channelMembers, socketChannelMap, lastBroadcast, countVars>>
          ELSE LET channelId == socketChannelMap[s]
                   wasMember == HasMember(MembersOf(channelMembers, channelId), s)
                   cm == Departure(channelMembers, channelId, s)
               IN /\ channelMembers' = cm
                  /\ socketChannelMap' =
                        [x \in DOMAIN socketChannelMap \ {s} |-> socketChannelMap[x]]
                  /\ sent' = DisconnectEmits(s, channelId, wasMember, rooms, channels, cm, conn)
                  /\ lastBroadcast' = LastBroadcastOf(sent', lastBroadcast)
                  /\ departed' = IF wasMember THEN Increment(departed, channelId) ELSE departed
                  /\ UNCHANGED admitted
       /\ UNCHANGED <<registryVars, maxRoomUsers, roomServerVars, nCreates, nUpdates>>

\* ------------------------------------------------------------ REST reads
\* GET /channels
GetChannels ==
    /\ event' = [kind |-> "GET /channels", socket |-> <<>>]
    /\ response' = [status |-> 200, body |-> buildChannelsState(channels, channelMembers)]
    /\ sent' = <<>>
    /\ UNCHANGED <<registryVars, maxRoomUsers, roomServerVars, presenceVars, sockets, lastBroadcast,
                   countVars, nCreates, nUpdates>>

\* GET /channels/:id
GetChannelById(id) ==
    /\ event' = [kind |-> "GET /channels/:id", socket |-> <<>>]
    /\ response' = IF HasChannel(channels, Trim(id))
                   THEN [status |-> 200,
                         body |-> ChannelView(getChannel(channels, Trim(id)), channelMembers)]
                   ELSE [status |-> 404, body |-> ErrorBody("CHANNEL_NOT_FOUND")]
    /\ sent' = <<>>
    /\ UNCHANGED <<registryVars, maxRoomUsers, roomServerVars, presenceVars, sockets, lastBroadcast,
                   countVars, nCreates, nUpdates>>

\* ------------------------------------------- the room server (server.js)
\* rooms.has(roomId)
RoomHas(rm, id) == \E i \in 1..Len(rm) : rm[i].id = id

\* rooms.get(roomId), for a room that exists
RoomGet(rm, id) == rm[CHOOSE i \in 1..Len(rm) : rm[i].id = id].members

\* if (!rooms.has(roomId)) rooms.set(roomId, new Map())
RoomEnsure(rm, id) == IF RoomHas(rm, id) THEN rm ELSE Append(rm, [id |-> id, members |-> <<>>])

\* the rooms with the member Map of room id changed in place
RoomPut(rm, id, members) ==
    [i \in 1..Len(rm) |-> IF rm[i].id = id THEN [id |-> id, members |-> members] ELSE rm[i]]

\* rooms.delete(roomId)
RECURSIVE RoomDelete(_, _)
RoomDelete(rm, id) ==
    IF rm = <<>> THEN <<>>
    ELSE IF Head(rm).id = id THEN RoomDelete(Tail(rm), id)
    ELSE <<Head(rm)>> \o RoomDelete(Tail(rm), id)

\* Math.random().toString(36).slice(2, 10): the room ids that are drawn
RandomRoomIds == {<<"k", "3">>}

\* room ids and passwords that clients of the room server send
RoomServerIds == {Undefined, Str(<<"r">>)}
RoomServerPasswords == {Undefined, Str(<<"p">>)}

\* app.post('/rooms'): body {roomId, password}
PostRooms(roomId, password) ==
    /\ event' = [kind |-> "POST /rooms", socket |-> <<>>]
    /\ sent' = <<>>
    /\ \E id \in (IF Truthy(roomId) THEN {roomId.s} ELSE RandomRoomIds) :
          /\ roomMap' = RoomEnsure(roomMap, id)
          /\ roomPasswords' = IF Truthy(password)
                              THEN (id :> String(password)) @@ roomPasswords
                              ELSE roomPasswords
          /\ response' = [status |-> 200,
                          body |-> [roomId |-> id, hasPassword |-> Truthy(password)]]
    /\ UNCHANGED <<channelServerVars, maxRoomUsers, ioRooms, sockets>>

\* app.get('/rooms/:roomId')
GetRoom(id) ==
    /\ event' = [kind |-> "GET /rooms/:roomId", socket |-> <<>>]
    /\ sent' = <<>>
    /\ response' = IF RoomHas(roomMap, id)
                   THEN [status |-> 200,
                         body |-> [exists |-> TRUE, usersCount |-> Len(RoomGet(roomMap, id)),
                                   hasPassword |-> id \in DOMAIN roomPasswords]]
                   ELSE [status |-> 404, body |-> [exists |-> FALSE]]
    /\ UNCHANGED <<channelServerVars, roomServerVars, maxRoomUsers, ioRooms, sockets>>

\* io.on('connection') of the room server: it only logs
RoomsConnection(s) ==
    /\ sockets[s] = "new"
    /\ s = NextSocketId
    /\ sockets' = [sockets EXCEPT ![s] = "connected"]
    /\ event' = [kind |-> "rooms/connection", socket |-> s]
    /\ response' = NoResponse
    /\ sent' = <<>>
    /\ UNCHANGED <<channelServerVars, roomServerVars, maxRoomUsers, ioRooms>>

\* if (roomPass && roomPass !== String(password || ''))
RoomWrongPassword(pw, id, password) ==
    /\ id \in DOMAIN pw
    /\ pw[id] # <<>>
    /\ pw[id] # (IF Truthy(password) THEN String(password) ELSE <<>>)

\* the join-error code of the room server's join-room, "" when it is admitted
RoomJoinError(rm, pw, cfgMax, id, password) ==
    IF RoomWrongPassword(pw, id, password) THEN "WRONG_PASSWORD"
    ELSE IF Len(RoomGet(rm, id)) >= cfgMax THEN "ROOM_FULL"
    ELSE ""

\* socket.on('join-room', ({roomId, userName, password}) => ...) of the room server
RoomsJoinRoom(s, roomId, userName, password) ==
    /\ sockets[s] = "connected"
    /\ event' = [kind |-> "rooms/join-room", socket |-> s]
    /\ response' = NoResponse
    /\ IF ~Truthy(roomId)
       THEN /\ sent' = <<>>
            /\ UNCHANGED <<roomMap, ioRooms>>
       ELSE LET id == roomId.s
                rm == RoomEnsure(roomMap, id)
                code == RoomJoinError(rm, roomPasswords, maxRoomUsers, id, password)
                member == Member(s, userName)
                members == MemberSet(RoomGet(rm, id), member)
                joined == [ioRooms EXCEPT ![s] = @ \cup {id}]
            IN IF code # ""
               THEN /\ roomMap' = rm
                    /\ sent' = <<JoinErrorMessage(s, code)>>
                    /\ UNCHANGED ioRooms
               ELSE /\ roomMap' = RoomPut(rm, id, members)
                    /\ ioRooms' = joined
                    /\ sent' = <<Message("socket.emit", {s}, "room-users",
                                         [roomId |-> roomId, users |-> Others(members, s),
                                          maxUsers |-> maxRoomUsers]),
                                 Message("socket.to", RoomExcept(joined, id, s), "user-joined",
                                         [socketId |-> s, name |-> member.name])>>
    /\ UNCHANGED <<channelServerVars, roomPasswords, maxRoomUsers, sockets>>

\* socket.on('signal') of the room server
RoomsSignal(s, roomId, targetSocketId, data) ==
    /\ sockets[s] = "connected"
    /\ event' = [kind |-> "rooms/signal", socket |-> s]
    /\ response' = NoResponse
    /\ sent' = IF ~Truthy(roomId) \/ ~Truthy(targetSocketId) \/ ~Truthy(data) THEN <<>>
               ELSE <<Message("io.to", RoomOf(ioRooms, targetSocketId.s, Connected), "signal",
                              [from |-> s, data |-> data])>>
    /\ UNCHANGED <<channelServerVars, roomServerVars, maxRoomUsers, ioRooms, sockets>>

\* the first room, in the order of the Map, that has s: <<>> when there is none
FirstRoomOf(rm, s) ==
    LET having == {i \in 1..Len(rm) : HasMember(rm[i].members, s)}
    IN IF having = {} THEN <<>>
       ELSE <<rm[CHOOSE i \in having : \A j \in having : i <= j].id>>

\* socket.on('disconnect') of the room server
RoomsDisconnect(s) ==
    LET left == [ioRooms EXCEPT ![s] = {}]
        first == FirstRoomOf(roomMap, s)
    IN /\ sockets[s] = "connected"
       /\ sockets' = [sockets EXCEPT ![s] = "closed"]
       /\ ioRooms' = left
       /\ event' = [kind |-> "rooms/disconnect", socket |-> s]
       /\ response' = NoResponse
       /\ IF first = <<>>
          THEN /\ sent' = <<>>
               /\ UNCHANGED roomServerVars
          ELSE LET id == first[1]
                   members == MemberDelete(RoomGet(roomMap, id), s)
               IN /\ sent' = <<Message("socket.to", RoomExcept(left, id, s), "user-left",
                                       [socketId |-> s])>>
                  /\ roomMap' = IF members = <<>> THEN RoomDelete(roomMap, id)
                                ELSE RoomPut(roomMap, id, members)
                  /\ roomPasswords' =
                        IF members = <<>>
                        THEN [x \in DOMAIN roomPasswords \ {id} |-> roomPasswords[x]]
                        ELSE roomPasswords
       /\ UNCHANGED <<channelServerVars, maxRoomUsers>>

\* ---------------------------------------------------------- specification
\* ids the callers of updateChannel and GET /channels/:id ask for
AskedIds == {channels[i].id : i \in 1..(IF channels = <<>> THEN 0 ELSE 1)} \cup {UnknownId}

SignalRoomIds == {Undefined, Str(UnknownId)}
SignalTargets == {Undefined, Str(<<"A">>), Str(UnknownId)} \cup {Str(id) : id \in AskedIds}
SignalData == {Undefined, Str(<<"s", "d", "p">>)}

\* a run stays within MaxMutations creates, updates and admitted joins
Bounded == nCreates' + nUpdates' + Total(admitted') <= MaxMutations

\* The server on a disk that takes every write: every handler, any order.
Next ==
    \/ \E params \in CreateParams : PostChannels(params, TRUE) /\ Bounded
    \/ \E id \in AskedIds, patch \in Patches : UpdateChannel(id, patch, TRUE) /\ Bounded
    \/ \E s \in Sockets : Connection(s)
    \/ \E s \in Sockets, roomId \in RoomIdInputs, userName \in UserNameInputs,
          password \in PasswordInputs :
          JoinRoom(s, roomId, userName, password) /\ Bounded
    \/ \E s \in Sockets, roomId \in SignalRoomIds, targetSocketId \in SignalTargets,
          data \in SignalData :
          Signal(s, roomId, targetSocketId, data)
    \/ \E s \in Sockets : Disconnect(s)
    \/ GetChannels
    \/ \E id \in AskedIds : GetChannelById(id)

Spec == Init /\ [][Next]_vars

\* a registry run stays within MaxRegistryOps creates and updates
RegistryBounded == nCreates' + nUpdates' <= MaxRegistryOps

\* The registry on a disk whose writes may fail: the REST handlers, the calls
\* of updateChannel, and clients connecting to receive the broadcasts.
NextRegistry ==
    \/ \E params \in CreateParams, writeOk \in BOOLEAN :
          PostChannels(params, writeOk) /\ RegistryBounded
    \/ \E id \in AskedIds, patch \in Patches, writeOk \in BOOLEAN :
          UpdateChannel(id, patch, writeOk) /\ RegistryBounded
    \/ \E s \in Sockets : Connection(s)
    \/ GetChannels
    \/ \E id \in AskedIds : GetChannelById(id)

SpecRegistry == Init /\ [][NextRegistry]_vars

\* a presence run stays within MaxJoins admitted joins and MaxUpdates updates
PresenceBounded == Total(admitted') <= MaxJoins /\ nUpdates' <= MaxUpdates

\* The presence table under a registry that updateChannel may change: the
\* socket handlers that write it, and updateChannel.
NextPresence ==
    \/ \E s \in Sockets : Connection(s)
    \/ \E s \in Sockets, roomId \in RoomIdInputs, userName \in UserNameInputs,
          password \in PasswordInputs :
          JoinRoom(s, roomId, userName, password) /\ PresenceBounded
    \/ \E s \in Sockets : Disconnect(s)
    \/ \E id \in AskedIds, patch \in Patches :
          UpdateChannel(id, patch, TRUE) /\ PresenceBounded

SpecPresence == Init /\ [][NextPresence]_vars

\* an admission run stays within MaxJoins admitted joins
JoinBounded == Total(admitted') <= MaxJoins

\* Admission under a registry that stays as loaded: clients connect, ask to
\* join with any room id, user name and password, and leave.
NextJoin ==
    \/ \E s \in Sockets : Connection(s)
    \/ \E s \in Sockets, roomId \in RoomIdInputs, userName \in UserNameInputs,
          password \in PasswordInputs :
          JoinRoom(s, roomId, userName, password) /\ JoinBounded
    \/ \E s \in Sockets : Disconnect(s)

SpecJoin == Init /\ [][NextJoin]_vars

\* The room server of server.js: every handler, any order.
NextRooms ==
    \/ \E roomId \in RoomServerIds, password \in RoomServerPasswords :
          PostRooms(roomId, password)
    \/ \E id \in {<<"r">>, UnknownId} : GetRoom(id)
    \/ \E s \in Sockets : RoomsConnection(s)
    \/ \E s \in Sockets, roomId \in RoomServerIds, userName \in UserNameInputs,
          password \in PasswordInputs :
          RoomsJoinRoom(s, roomId, userName, password)
    \/ \E s \in Sockets, roomId \in RoomServerIds, targetSocketId \in SignalTargets,
          data \in SignalData :
          RoomsSignal(s, roomId, targetSocketId, data)
    \/ \E s \in Sockets : RoomsDisconnect(s)

SpecRooms == Init /\ [][NextRooms]_vars

\* ------------------------------------------------------------------ claims
\* the sockets in the member set of channel id
MemberIds(cm, id) == {MembersOf(cm, id)[i].socketId : i \in 1..Len(MembersOf(cm, id))}

\* the step is the handling of a join-room that answered a join-error
RejectedJoin == event'.kind = "join-room" /\ \E i \in 1..Len(sent') : sent'[i].name = "join-error"

\* the join-error codes among the messages
ErrorCodes(msgs) == {msgs[i].data.code : i \in {j \in 1..Len(msgs) : msgs[j].name = "join-error"}}

\* the last handler was a join-room that answered exactly one join-error, to its requester
RejectedWith(code) ==
    /\ event.kind = "join-room"
    /\ sent = <<Message("socket.emit", {event.socket}, "join-error", [code |-> code])>>

\* C1: the member set of every channel never holds more participants than
\* the channel's capacity (maxUsers).
C1_MembersWithinCapacity ==
    \A i \in 1..Len(channels) :
        Cardinality(MemberIds(channelMembers, channels[i].id)) <= channels[i].maxUsers

\* C2: every connection id is in the member set of at most one channel.
C2_AtMostOneChannel ==
    \A s \in Sockets :
        Cardinality({id \in DOMAIN channelMembers : s \in MemberIds(channelMembers, id)}) <= 1

\* C3: join-room checks existence, then capacity, then password: an unknown
\* channel answers CHANNEL_NOT_FOUND, a channel at or above its effective
\* capacity answers ROOM_FULL whatever the password, and WRONG_PASSWORD is
\* only answered for an existing channel that is not full.
C3_CheckOrder ==
    [][event'.kind = "join-room" =>
       \A s \in {event'.socket}, roomId \in RoomIdInputs :
       \A id \in {ChannelIdOf(roomId)}, userName \in UserNameInputs,
          password \in PasswordInputs :
         LET known == \E i \in 1..Len(channels) : channels[i].id = id
             full == \E i \in 1..Len(channels) :
                        /\ channels[i].id = id
                        /\ Cardinality(MemberIds(channelMembers, id)) >=
                              (IF channels[i].maxUsers # 0 THEN channels[i].maxUsers
                               ELSE maxRoomUsers)
             ordered ==
                /\ ~known => sent' = <<JoinErrorMessage(s, "CHANNEL_NOT_FOUND")>>
                /\ full => sent' = <<JoinErrorMessage(s, "ROOM_FULL")>>
                /\ "WRONG_PASSWORD" \in ErrorCodes(sent') => known /\ ~full
         IN id # <<>> => (ordered \/ ~JoinRoom(s, roomId, userName, password))]_vars

\* a join was answered ROOM_FULL while every channel at capacity had a password
C3_Witness ==
    /\ RejectedWith("ROOM_FULL")
    /\ \A i \in 1..Len(channels) :
          Cardinality(MemberIds(channelMembers, channels[i].id)) >= channels[i].maxUsers
             => channels[i].hasPassword

\* the snapshot the last handler broadcast, <<>> when it broadcast none
BroadcastNow == LastBroadcastOf(sent, <<>>)

\* C4: after N admitted joins to a channel of capacity >= N and M departures
\* from it (N > M), the onlineCount of the channel in the snapshot broadcast
\* by the last join-room or disconnect is N - M.
C4_OnlineCountIsJoinsMinusDepartures ==
    event.kind \in {"join-room", "disconnect"} =>
        \A i \in 1..Len(BroadcastNow) :
            LET view == BroadcastNow[i]
                N == Count(admitted, view.id)
                M == Count(departed, view.id)
            IN (N > M /\ view.maxUsers >= N) => view.onlineCount = N - M

\* the password is absent or the empty string
NoPassword(password) == password = Undefined \/ password = Str(<<>>)

\* the password is a non-empty string equal to the secret of the channel
SecretGiven(channel, password) ==
    /\ password.t = "string"
    /\ password.s # <<>>
    /\ channel.passwordHash = Str(password.s)

\* C5: for a password-protected channel that is not full, join-room answers
\* WRONG_PASSWORD exactly when the password is empty, absent or differs from
\* the stored secret, and admits (member inserted, room-users sent) when it
\* equals the secret; a channel without a password admits any password.
C5_PasswordDecides ==
    [][event'.kind = "join-room" =>
       \A s \in {event'.socket}, roomId \in RoomIdInputs :
       \A id \in {ChannelIdOf(roomId)}, userName \in UserNameInputs,
          password \in PasswordInputs :
         LET channel == getChannel(channels, id)
             notFull == Cardinality(MemberIds(channelMembers, id)) <
                           (IF channel.maxUsers # 0 THEN channel.maxUsers ELSE maxRoomUsers)
             rejected == sent' = <<JoinErrorMessage(s, "WRONG_PASSWORD")>>
             admittedNow ==
                /\ s \in MemberIds(channelMembers', id)
                /\ sent' # <<>>
                /\ sent'[1].name = "room-users"
                /\ sent'[1].to = {s}
                /\ sent'[1].data.roomId = id
             decided ==
                IF channel.hasPassword
                THEN /\ rejected <=> (NoPassword(password) \/ ~SecretGiven(channel, password))
                     /\ SecretGiven(channel, password) => admittedNow
                ELSE admittedNow
         IN (HasChannel(channels, id) /\ notFull) =>
               (decided \/ ~JoinRoom(s, roomId, userName, password))]_vars

\* a join was admitted to a password-protected channel
C5_Witness ==
    /\ event.kind = "join-room"
    /\ sent # <<>>
    /\ sent[1].name = "room-users"
    /\ HasChannel(channels, sent[1].data.roomId)
    /\ getChannel(channels, sent[1].data.roomId).hasPassword
    /\ event.socket \in MemberIds(channelMembers, sent[1].data.roomId)

\* C6: a rejected join-room leaves channelMembers (the ids that have an
\* entry included) and socketChannelMap as they were.
C6_RejectedJoinLeavesPresence ==
    [][RejectedJoin => UNCHANGED <<channelMembers, socketChannelMap>>]_vars

\* C7: a rejected join-room emits its join-error to the requester and nothing
\* else, so no channels-state and nothing to any other connection; the
\* disconnect of a connection that is in no channel emits nothing and leaves
\* the registry, the presence table and the reverse map as they were.
C7_RejectionsStayPrivate ==
    [][/\ RejectedJoin =>
            /\ \A i \in 1..Len(sent') :
                  /\ sent'[i].to \subseteq {event'.socket}
                  /\ sent'[i].name # "channels-state"
            /\ lastBroadcast' = lastBroadcast
       /\ \A i \in 1..Len(sent') :
            sent'[i].name = "join-error" => sent'[i].to = {event'.socket}
       /\ \A s \in Sockets :
            (/\ Disconnect(s)
             /\ \A id \in DOMAIN channelMembers : s \notin MemberIds(channelMembers, id)) =>
               /\ sent' = <<>>
               /\ UNCHANGED <<channels, disk, channelMembers, socketChannelMap, lastBroadcast>>]_vars

\* a join was rejected while another connection was there to hear a broadcast
C7_Witness ==
    /\ event.kind = "join-room"
    /\ ErrorCodes(sent) # {}
    /\ Connected \ {event.socket} # {}

\* the onlineUsers of channel id in a snapshot, <<>> when it has no such channel
SnapshotUsers(snapshot, id) ==
    IF \E i \in 1..Len(snapshot) : snapshot[i].id = id
    THEN snapshot[CHOOSE i \in 1..Len(snapshot) : snapshot[i].id = id].onlineUsers
    ELSE <<>>

\* C8: between events, the onlineUsers of every channel in the most recently
\* broadcast channels-state are the current members of that channel, so no
\* admission and no departure is left without its broadcast.
C8_BroadcastMatchesPresence ==
    \A i \in 1..Len(channels) :
        SnapshotUsers(lastBroadcast, channels[i].id) =
            OnlineUsers(MembersOf(channelMembers, channels[i].id))

\* a member has left a channel in which another member stays
C8_Witness ==
    /\ event.kind = "disconnect"
    /\ \E id \in DOMAIN channelMembers :
          /\ Count(departed, id) > 0
          /\ channelMembers[id] # <<>>
          /\ event.socket \notin MemberIds(channelMembers, id)

\* the name is absent, empty or made of white space only
Blank(name) ==
    \/ name = Undefined
    \/ name.t = "string" /\ \A i \in 1..Len(name.s) : name.s[i] \in {" ", "\t"}

\* C9: POST /channels with a name that is absent, empty or white space only
\* answers 400 NAME_REQUIRED, broadcasts nothing and leaves the registry and
\* the backing store as they were.
C9_BlankNameRejected ==
    [][\A params \in CreateParams, writeOk \in BOOLEAN :
         (PostChannels(params, writeOk) /\ Blank(params.name)) =>
            /\ response' = [status |-> 400, body |-> [error |-> "NAME_REQUIRED"]]
            /\ sent' = <<>>
            /\ UNCHANGED <<channels, disk>>]_vars

\* a create was answered NAME_REQUIRED while a client was connected
C9_Witness ==
    /\ event.kind = "POST /channels"
    /\ response.status = 400
    /\ Connected # {}

IsPrefix(a, b) == Len(a) <= Len(b) /\ SubSeq(b, 1, Len(a)) = a

\* C10: createChannel with a valid name adds exactly one channel, under an
\* id the registry did not hold, and leaves every other channel record as it
\* was; so no two channels share an id.
C10_CreateAddsFreshChannel ==
    [][\A params \in CreateParams, writeOk \in BOOLEAN :
         (PostChannels(params, writeOk) /\ ~Blank(params.name)) =>
            /\ Len(channels') = Len(channels) + 1
            /\ \A i \in 1..Len(channels) : channels'[i] = channels[i]
            /\ channels'[Len(channels')].id \notin ChannelIds(channels)
            /\ \A i, j \in 1..Len(channels') :
                  channels'[i].id = channels'[j].id => i = j]_vars

\* a channel was created whose slug was taken, under the id of another
\* channel followed by a suffix
C10_Witness ==
    /\ event.kind = "POST /channels"
    /\ response.status = 201
    /\ \E i \in 1..Len(channels) :
          /\ channels[i].id # response.body.id
          /\ IsPrefix(channels[i].id \o <<"-">>, response.body.id)

\* the records of the array that channels.json holds
OnDisk == {disk.parsed[i] : i \in 1..Len(disk.parsed)}

\* C11: between events every channel of the in-memory registry, with the
\* field values it has there, is recorded in the backing store; so a create
\* or update whose write fails leaves nothing in memory that was not written.
C11_RegistryIsRecorded ==
    \A i \in 1..Len(channels) : ToJson(channels[i]) \in OnDisk

\* maxUsers of a create is absent or not a positive number
NoCapacityGiven(v) == v = Undefined \/ Number(v).nan \/ Number(v).n <= 0

\* C12: a channel created with maxUsers absent or non-positive gets the
\* configured default room capacity, config.maxRoomUsers, as its capacity.
C12_DefaultCapacityIsConfigured ==
    [][\A params \in CreateParams, writeOk \in BOOLEAN :
         (/\ PostChannels(params, writeOk)
          /\ ~Blank(params.name)
          /\ NoCapacityGiven(params.maxUsers)) =>
            channels'[Len(channels')].maxUsers = maxRoomUsers]_vars

\* C13: saving the registry and loading what was saved into an empty
\* registry gives the same channels in the same order, with the same id,
\* name, capacity, hasPassword and password secret.
C13_SaveThenLoadIsIdentity ==
    LoadEntries(<<>>, saveChannelsToDisk(channels)) = channels

\* the elements of a sequence
Range(seq) == {seq[i] : i \in 1..Len(seq)}

\* C14: on every admission the users of the room-users message sent to the
\* joiner are the participants that were in the channel's member set just
\* before the joiner was inserted, also when the joiner was already one.
C14_PeersArePriorMembers ==
    [][(/\ event'.kind = "join-room"
        /\ sent' # <<>>
        /\ sent'[1].name = "room-users") =>
          Range(sent'[1].data.users) =
             Range(OnlineUsers(MembersOf(channelMembers, sent'[1].data.roomId)))]_vars

\* C15: a signal with a target, a channel id and a payload makes exactly one
\* message, which reaches no connection but the target and carries the
\* payload, the sender's id and the channel id; a signal that lacks one of
\* the three makes no message; presence table, reverse map and registry
\* stay as they were.
C15_SignalRelaysOnce ==
    [][event'.kind = "signal" =>
       \A s \in {event'.socket}, roomId \in SignalRoomIds,
          targetSocketId \in SignalTargets, data \in SignalData :
          Signal(s, roomId, targetSocketId, data) =>
             /\ IF Truthy(roomId) /\ Truthy(targetSocketId) /\ Truthy(data)
                THEN /\ Len(sent') = 1
                     /\ sent'[1].name = "signal"
                     /\ sent'[1].to \subseteq {targetSocketId.s}
                     /\ sent'[1].data = [from |-> s, roomId |-> roomId, data |-> data]
                ELSE sent' = <<>>
             /\ UNCHANGED <<channelMembers, socketChannelMap, channels, disk>>]_vars

\* secrets a password-protected channel may have
Secrets == {Str(<<"p">>), Str(<<"q">>)}

\* the registry with the secret of every password-protected channel replaced
WithSecret(chs, secret) ==
    [i \in 1..Len(chs) |->
        IF chs[i].hasPassword THEN [chs[i] EXCEPT !.passwordHash = secret] ELSE chs[i]]

\* the registries that differ from chs only in secret values
SecretVariants(chs) == {WithSecret(chs, secret) : secret \in Secrets}

\* the fields of a channel in a snapshot
ViewFields == {"id", "name", "maxUsers", "hasPassword", "onlineCount", "onlineUsers"}

\* the channel views that the last handler sent, broadcast or returned, and
\* those of the last broadcast
SnapshotViews ==
    Range(lastBroadcast)
       \cup UNION {Range(sent[i].data) :
                      i \in {j \in 1..Len(sent) : sent[j].name = "channels-state"}}
       \cup (IF event.kind = "GET /channels" THEN Range(response.body)
             ELSE IF \/ event.kind = "GET /channels/:id" /\ response.status = 200
                     \/ event.kind = "POST /channels" /\ response.status = 201
                  THEN {response.body}
                  ELSE {})

\* C16 as stated: a join-room handled in two runs whose registries differ
\* only in secret values leaves the same snapshot in both.  The runs are
\* compared at their first join to a known channel, before any create or
\* update, where both are in the same state but for the secrets.
C16_SnapshotIgnoresSecrets ==
    [][(/\ event'.kind = "join-room"
        /\ channelMembers = <<>>
        /\ nCreates = 0
        /\ nUpdates = 0) =>
          \A s \in {event'.socket}, roomId \in RoomIdInputs, userName \in UserNameInputs,
             password \in PasswordInputs :
             JoinRoom(s, roomId, userName, password) =>
                \A chs \in SecretVariants(channels) :
                   buildChannelsState(chs, PresenceAfterJoin(chs, channelMembers, maxRoomUsers,
                                                             s, roomId, userName, password))
                      = buildChannelsState(channels', channelMembers')]_vars

\* C16: no snapshot sent on connect, broadcast or returned by the list, get
\* and create calls has a field other than id, name, maxUsers, hasPassword,
\* onlineCount and onlineUsers, and the snapshot of a registry and a presence
\* table is the same for every registry that differs only in secret values.
C16_SnapshotsCarryNoSecret ==
    /\ \A view \in SnapshotViews : DOMAIN view = ViewFields
    /\ \A chs \in SecretVariants(channels) :
          /\ buildChannelsState(chs, channelMembers) =
                buildChannelsState(channels, channelMembers)
          /\ \A i \in 1..Len(channels) : CreatedView(chs[i]) = CreatedView(channels[i])

\* a join was admitted to a password-protected channel and the broadcast
\* shows the channel with its member
C16_Witness ==
    /\ event.kind = "join-room"
    /\ \E view \in Range(BroadcastNow) : view.hasPassword /\ view.onlineCount > 0

\* C17: join-room, signal and disconnect leave every channel record and the
\* backing store as they were, and no step takes a channel id out of the
\* registry; so a channel whose last participant disconnects is still there
\* with its capacity and password.
C17_RegistryWrittenByCreateAndUpdate ==
    [][/\ event'.kind \in {"join-room", "signal", "disconnect"} =>
             UNCHANGED <<channels, disk>>
       /\ ChannelIds(channels) \subseteq ChannelIds(channels')]_vars

\* the last participant of a channel has disconnected and the channel is
\* in the registry without an entry in the presence table
C17_Witness ==
    /\ event.kind = "disconnect"
    /\ \E id \in ChannelIds(channels) :
          Count(departed, id) > 0 /\ id \notin DOMAIN channelMembers

\* C18: every channel of the registry has a password secret exactly when its
\* hasPassword is true, so that some password is admitted to every channel
\* whose hasPassword is true.
C18_SecretIffHasPassword ==
    \A i \in 1..Len(channels) :
        /\ channels[i].hasPassword <=> channels[i].passwordHash # Undefined
        /\ channels[i].hasPassword =>
              \E password \in PasswordInputs : ~WrongPassword(channels[i], password)

\* C19: once the disconnect of a connection has been handled, its id is in
\* no member set, not in the reverse map and in no snapshot sent, broadcast
\* or returned from then on.
C19_ClosedSocketsAreGone ==
    \A s \in Sockets :
        sockets[s] = "closed" =>
           /\ \A id \in DOMAIN channelMembers : s \notin MemberIds(channelMembers, id)
           /\ s \notin DOMAIN socketChannelMap
           /\ \A view \in SnapshotViews :
                 \A i \in 1..Len(view.onlineUsers) : view.onlineUsers[i].socketId # s

\* C20: in the room server a join to a room that holds config.maxRoomUsers
\* members or more is answered ROOM_FULL, whatever the room's password and
\* the password supplied.
C20_RoomCapacityBeforePassword ==
    [][event'.kind = "rooms/join-room" =>
       \A s \in {event'.socket}, roomId \in RoomServerIds, userName \in UserNameInputs,
          password \in PasswordInputs :
          (/\ RoomsJoinRoom(s, roomId, userName, password)
           /\ Truthy(roomId)
           /\ RoomHas(roomMap, roomId.s)
           /\ Len(RoomGet(roomMap, roomId.s)) >= maxRoomUsers) =>
              sent' = <<JoinErrorMessage(s, "ROOM_FULL")>>]_vars
====
